---------------------------- MODULE Spec2Model ----------------------------
(***************************************************************************)
(* Model of the {packet, N} framing protocol of protocol.go:               *)
(* SimpleProtocol with its operations Packet, Write and Read, the buffers  *)
(* they work on, and the byte streams they write to and read from.         *)
(***************************************************************************)
EXTENDS Integers, Sequences, FiniteSets, TLC

VARIABLES
    protocol,   \* protocol[i]: the SimpleProtocol instance i (n, bo, head, MaxPacketSize)
    inst,       \* inst[t]: the instance thread t calls its operations on
    buffer,     \* buffer[t]: the Buffer thread t owns (its Data slice)
    wire,       \* wire[t]: the bytes in flight on the stream thread t reads from
    eos,        \* eos[t]: what the reader of thread t reports once wire[t] is drained
    rd,         \* rd[t]: position and locals of the Read call of thread t
    ret,        \* ret[t]: the operation thread t returned from last, and its error
    serial,     \* whether the callers run the Reads on a shared instance one at a time
    obs,        \* obs[t]: what was observed of the reader during the Read of thread t
    snd,        \* snd[t]: what was observed of the Message and the writer of thread t
    sent        \* sent[t]: the payloads framed onto the stream thread t reads from

vars == <<protocol, inst, buffer, wire, eos, rd, ret, serial, obs, snd, sent>>

--------------------------------------------------------------------------
(* Bounds of the model *)

\* at most this many packets are written to a stream
MaxPackets == 2
\* the largest payload a Message appends
MaxPayload == 2
\* the largest slice the host lets make() allocate
MemLimit == 70000

\* two threads, each with a stream to read from, and two protocol instances
Threads == {1, 2}
Insts   == {1, 2}

--------------------------------------------------------------------------
(* Sequences of bytes *)

Byte == 0..255

Min(a, b) == IF a < b THEN a ELSE b

Zeros(k) == [i \in 1..k |-> 0]

Reverse(s) == [i \in 1..Len(s) |-> s[Len(s) + 1 - i]]

Take(s, k) == SubSeq(s, 1, k)

Drop(s, k) == SubSeq(s, k + 1, Len(s))

\* s with the bytes of t copied over it from (1-based) position at
Overwrite(s, at, t) ==
    [i \in 1..Len(s) |-> IF i >= at /\ i < at + Len(t) THEN t[i - at + 1] ELSE s[i]]

--------------------------------------------------------------------------
(* Go's int, 64 bits wide, as its eight bytes in two's complement, most    *)
(* significant first; model-sized quantities (lengths, capacities,         *)
(* MaxPacketSize) are plain integers.                                      *)

\* the conversion int(u) of an unsigned value given by its bytes, most
\* significant first: zero-extended, and for 8 bytes the same bits
IntOfUnsigned(bytes) == Zeros(8 - Len(bytes)) \o bytes

IntIsNegative(x) == x[1] >= 128

\* x is in 0 .. 2^31-1, where the model can compute with it
IntIsSmall(x) == (\A i \in 1..4 : x[i] = 0) /\ x[5] < 128

IntValue(x) == ((x[5] * 256 + x[6]) * 256 + x[7]) * 256 + x[8]

\* x > m, for a model-sized m >= 0
IntGreater(x, m) == ~IntIsNegative(x) /\ (~IntIsSmall(x) \/ IntValue(x) > m)

\* the k low bytes of v, least significant first: the conversion uintN(v)
\* followed by a little-endian store
RECURSIVE LowBytes(_, _)
LowBytes(v, k) == IF k = 0 THEN <<>> ELSE <<v % 256>> \o LowBytes(v \div 256, k - 1)

--------------------------------------------------------------------------
(* encoding/binary byte orders *)

BigEndian    == "BigEndian"
LittleEndian == "LittleEndian"
ByteOrders   == {BigEndian, LittleEndian}

\* byteOrder.PutUintN: the k bytes stored for the unsigned value v
PutUint(bo, k, v) == IF bo = BigEndian THEN Reverse(LowBytes(v, k)) ELSE LowBytes(v, k)

\* byteOrder.UintN: the bytes of the stored value, most significant first
Uint(bo, bytes) == IF bo = BigEndian THEN bytes ELSE Reverse(bytes)

--------------------------------------------------------------------------
(* Errors *)

Nil                 == "nil"
PacketTooLargeError == "PacketTooLargeError"
EOF                 == "io.EOF"
ErrUnexpectedEOF    == "io.ErrUnexpectedEOF"
TransportError      == "TransportError"
MessageError        == "MessageError"
Panic               == "panic"

--------------------------------------------------------------------------
(* Buffer: the slice Data.  cap is the capacity of its backing array, len  *)
(* its length, and data the written front of the backing array: the bytes  *)
(* of the array past Len(data) are the zeroes make() left there.           *)

EmptyBuffer == [data |-> <<>>, len |-> 0, cap |-> 0]

\* make([]byte, len, cap)
MakeSlice(len, cap) == [data |-> <<>>, len |-> len, cap |-> cap]

ByteAt(b, i) == IF i <= Len(b.data) THEN b.data[i] ELSE 0

\* the bytes of the slice, Data[0:len]
Bytes(b) == [i \in 1..b.len |-> ByteAt(b, i)]

\* the backing array written up to position k
Front(b, k) == [i \in 1..(IF k > Len(b.data) THEN k ELSE Len(b.data)) |-> ByteAt(b, i)]

\* copy(Data[at:], bytes), at 0-based
CopyInto(b, at, bytes) ==
    [b EXCEPT !.data = Overwrite(Front(b, at + Len(bytes)), at + 1, bytes)]

\* Data = append(Data, bytes...)
AppendBytes(b, bytes) ==
    IF b.len + Len(bytes) <= b.cap
    THEN [CopyInto(b, b.len, bytes) EXCEPT !.len = b.len + Len(bytes)]
    ELSE [data |-> Bytes(b) \o bytes,
          len  |-> b.len + Len(bytes),
          cap  |-> b.len + Len(bytes)]

--------------------------------------------------------------------------
(* Message: what RecommendBufferSize returns, the bytes WriteBuffer        *)
(* appends, and whether WriteBuffer fails.                                 *)

WriteBuffer(message, b) ==
    IF message.fails
    THEN [buffer |-> b, err |-> MessageError]
    ELSE [buffer |-> AppendBytes(b, message.payload), err |-> Nil]

--------------------------------------------------------------------------
(* SimpleProtocol *)

HeadSizes == {1, 2, 4, 8}

\* Faulty variant of PacketN: the switch has no default case, a protocol of
\* any head size is returned
PacketN_AnyWidth(n, byteOrder) ==
    [err |-> Nil,
     protocol |-> [n |-> n, bo |-> byteOrder, head |-> Zeros(n), MaxPacketSize |-> 0]]

\* PacketN(n, byteOrder): the protocol created, or the panic of an
\* unsupported head size
PacketN(n, byteOrder) ==
    IF n \in HeadSizes
    THEN [err |-> Nil,
          protocol |-> [n |-> n, bo |-> byteOrder, head |-> Zeros(n), MaxPacketSize |-> 0]]
    ELSE [err |-> Panic,
          protocol |-> [n |-> n, bo |-> byteOrder, head |-> <<>>, MaxPacketSize |-> 0]]

\* Faulty variant of encodeHead: the head holds the length of the whole
\* buffer, the head included
encodeHead_WholeLength(p, b) ==
    IF b.len < p.n
    THEN [err |-> Panic, buffer |-> b]
    ELSE [err |-> Nil, buffer |-> CopyInto(b, 0, PutUint(p.bo, p.n, b.len))]

\* Faulty variant of encodeHead: the head is stored little-endian whatever
\* the byte order of the protocol
encodeHead_LittleEndian(p, b) ==
    IF b.len < p.n
    THEN [err |-> Panic, buffer |-> b]
    ELSE [err |-> Nil, buffer |-> CopyInto(b, 0, LowBytes(b.len - p.n, p.n))]

\* encodeHead(buffer.Data): the closure PacketN chose for p.n.  Storing the
\* head into a slice shorter than p.n panics.
encodeHead(p, b) ==
    IF b.len < p.n
    THEN [err |-> Panic, buffer |-> b]
    ELSE [err |-> Nil,
          buffer |-> CASE p.n = 1 -> CopyInto(b, 0, LowBytes(b.len - p.n, 1))
                       [] p.n = 2 -> CopyInto(b, 0, PutUint(p.bo, 2, b.len - p.n))
                       [] p.n = 4 -> CopyInto(b, 0, PutUint(p.bo, 4, b.len - p.n))
                       [] p.n = 8 -> CopyInto(b, 0, PutUint(p.bo, 8, b.len - p.n))]

\* Faulty variant of decodeHead: the head is decoded big-endian whatever
\* the byte order of the protocol
decodeHead_BigEndian(p) == IntOfUnsigned(p.head)

\* decodeHead(): the int decoded from the scratch head of p
decodeHead(p) ==
    CASE p.n = 1 -> IntOfUnsigned(<<p.head[1]>>)
      [] p.n = 2 -> IntOfUnsigned(Uint(p.bo, p.head))
      [] p.n = 4 -> IntOfUnsigned(Uint(p.bo, p.head))
      [] p.n = 8 -> IntOfUnsigned(Uint(p.bo, p.head))

\* Faulty variant of Packet: a buffer of sufficient capacity is handed to
\* WriteBuffer at the length it had
Packet_KeepLength(p, b, message) ==
    LET size == message.hint
        sized == IF b.cap < size
                 THEN IF p.n > size
                      THEN [err |-> Panic, buffer |-> b]
                      ELSE [err |-> Nil, buffer |-> MakeSlice(p.n, size)]
                 ELSE IF p.n > b.cap
                      THEN [err |-> Panic, buffer |-> b]
                      ELSE [err |-> Nil, buffer |-> b]
    IN  IF sized.err = Panic
        THEN [err |-> Panic, buffer |-> b, handed |-> -1]
        ELSE LET w == WriteBuffer(message, sized.buffer)
             IN  [err |-> w.err, buffer |-> w.buffer, handed |-> sized.buffer.len]

\* Packet(buffer, message).  handed is the length of the slice WriteBuffer
\* was given, -1 when it was never called.
Packet(p, b, message) ==
    LET size == message.hint
        sized == IF b.cap < size
                 THEN IF p.n > size     \* make: len larger than cap
                      THEN [err |-> Panic, buffer |-> b]
                      ELSE [err |-> Nil, buffer |-> MakeSlice(p.n, size)]
                 ELSE IF p.n > b.cap    \* slice bounds out of range
                      THEN [err |-> Panic, buffer |-> b]
                      ELSE [err |-> Nil, buffer |-> [b EXCEPT !.len = p.n]]
    IN  IF sized.err = Panic
        THEN [err |-> Panic, buffer |-> b, handed |-> -1]
        ELSE LET w == WriteBuffer(message, sized.buffer)
             IN  [err |-> w.err, buffer |-> w.buffer, handed |-> sized.buffer.len]

\* The size check of Write: the packet is refused
WriteTooLarge(p, b) == p.MaxPacketSize > 0 /\ b.len > p.MaxPacketSize

\* Faulty variant of Write: the head is stamped before the size is checked
Write_StampFirst(p, b, accepts) ==
    LET e == encodeHead(p, b)
    IN  IF e.err = Panic
        THEN [err |-> Panic, buffer |-> b, calls |-> 0, out |-> <<>>]
        ELSE IF WriteTooLarge(p, b)
        THEN [err |-> PacketTooLargeError, buffer |-> e.buffer, calls |-> 0, out |-> <<>>]
        ELSE IF accepts
        THEN [err |-> Nil, buffer |-> e.buffer, calls |-> 1, out |-> Bytes(e.buffer)]
        ELSE [err |-> TransportError, buffer |-> e.buffer, calls |-> 1, out |-> <<>>]

\* Faulty variant of Write: a write the writer failed is tried once more
Write_Retry(p, b, accepts) ==
    IF WriteTooLarge(p, b)
    THEN [err |-> PacketTooLargeError, buffer |-> b, calls |-> 0, out |-> <<>>]
    ELSE LET e == encodeHead(p, b)
         IN  IF e.err = Panic
             THEN [err |-> Panic, buffer |-> b, calls |-> 0, out |-> <<>>]
             ELSE IF accepts
                  THEN [err |-> Nil, buffer |-> e.buffer, calls |-> 1,
                        out |-> Bytes(e.buffer)]
                  ELSE [err |-> TransportError, buffer |-> e.buffer, calls |-> 2,
                        out |-> <<>>]

\* Write(writer, buffer), with a writer that accepts the bytes or fails.
\* calls counts the calls of writer.Write, out is what reached the stream.
Write(p, b, accepts) ==
    IF WriteTooLarge(p, b)
    THEN [err |-> PacketTooLargeError, buffer |-> b, calls |-> 0, out |-> <<>>]
    ELSE LET e == encodeHead(p, b)
         IN  IF e.err = Panic
             THEN [err |-> Panic, buffer |-> b, calls |-> 0, out |-> <<>>]
             ELSE IF accepts
                  THEN [err |-> Nil, buffer |-> e.buffer, calls |-> 1,
                        out |-> Bytes(e.buffer)]
                  ELSE [err |-> TransportError, buffer |-> e.buffer, calls |-> 1,
                        out |-> <<>>]

\* One call reader.Read(region) with want = len(region) > 0: the numbers of
\* bytes it may deliver and the error it returns with them.  A reader
\* delivers at least one byte, or reports the end of the stream or its
\* failure; the last bytes may come together with the end of the stream.
ReaderReturns(w, e, want) ==
    IF Len(w) = 0
    THEN CASE e = "open" -> {}
           [] e = "eof"  -> {[k |-> 0, err |-> EOF]}
           [] e = "err"  -> {[k |-> 0, err |-> TransportError]}
    ELSE {[k |-> k, err |-> Nil] : k \in 1..Min(want, Len(w))}
         \cup (IF e = "eof" /\ Len(w) <= want
               THEN {[k |-> Len(w), err |-> EOF]} ELSE {})

\* Faulty variant of io.ReadFull: a single call of reader.Read, not retried
ReadFullDone_OneCall(got, min, err) == TRUE

\* io.ReadFull: the loop ends once min bytes were read or a call failed
ReadFullDone(got, min, err) == got >= min \/ err # Nil

\* Faulty variant of ReadFullErr: a read that ended short of min bytes is
\* taken for a full one
ReadFullErr_Short(got, min, err) ==
    IF got > 0 THEN Nil ELSE err

\* io.ReadFull: the error returned when the loop has ended
ReadFullErr(got, min, err) ==
    IF got >= min THEN Nil
    ELSE IF got > 0 /\ err = EOF THEN ErrUnexpectedEOF
    ELSE err

\* The size check of Read: the packet is refused
ReadTooLarge(p, size) == p.MaxPacketSize > 0 /\ IntGreater(size, p.MaxPacketSize)

\* Faulty variant of ReadSize: a buffer of sufficient capacity is left at
\* the length it had
ReadSize_NoTruncate(p, b) ==
    LET size == decodeHead(p)
    IN  IF ReadTooLarge(p, size)
        THEN [err |-> PacketTooLargeError, buffer |-> b, size |-> 0]
        ELSE IF IntGreater(size, b.cap)
             THEN IF IntIsSmall(size) /\ IntValue(size) <= MemLimit
                  THEN [err |-> Nil, size |-> IntValue(size),
                        buffer |-> MakeSlice(IntValue(size), IntValue(size))]
                  ELSE [err |-> Panic, buffer |-> b, size |-> 0]
             ELSE IF IntIsNegative(size)
                  THEN [err |-> Panic, buffer |-> b, size |-> 0]
                  ELSE [err |-> Nil, size |-> IF IntValue(size) = 0 THEN 0 ELSE b.len,
                        buffer |-> b]

\* Faulty variant of ReadSize: the buffer is resized before the size is
\* checked
ReadSize_ResizeFirst(p, b) ==
    LET size == decodeHead(p)
        sized == IF IntGreater(size, b.cap)
                 THEN IF IntIsSmall(size) /\ IntValue(size) <= MemLimit
                      THEN [err |-> Nil, size |-> IntValue(size),
                            buffer |-> MakeSlice(IntValue(size), IntValue(size))]
                      ELSE [err |-> Panic, buffer |-> b, size |-> 0]
                 ELSE IF IntIsNegative(size)
                      THEN [err |-> Panic, buffer |-> b, size |-> 0]
                      ELSE [err |-> Nil, size |-> IntValue(size),
                            buffer |-> [b EXCEPT !.len = IntValue(size)]]
    IN  IF sized.err = Nil /\ ReadTooLarge(p, size)
        THEN [err |-> PacketTooLargeError, buffer |-> sized.buffer, size |-> 0]
        ELSE sized

\* Faulty variant of ReadSize: a slice of the decoded size is made whatever
\* the capacity of the buffer
ReadSize_AlwaysMake(p, b) ==
    LET size == decodeHead(p)
    IN  IF ReadTooLarge(p, size)
        THEN [err |-> PacketTooLargeError, buffer |-> b, size |-> 0]
        ELSE IF IntIsSmall(size) /\ IntValue(size) <= MemLimit
             THEN [err |-> Nil, size |-> IntValue(size),
                   buffer |-> MakeSlice(IntValue(size), IntValue(size))]
             ELSE [err |-> Panic, buffer |-> b, size |-> 0]

\* Read between its two io.ReadFull calls: decode the head, check the size,
\* resize the buffer.  size is the payload length still to be read.
ReadSize(p, b) ==
    LET size == decodeHead(p)
    IN  IF ReadTooLarge(p, size)
        THEN [err |-> PacketTooLargeError, buffer |-> b, size |-> 0]
        ELSE IF IntGreater(size, b.cap)
             THEN IF IntIsSmall(size) /\ IntValue(size) <= MemLimit
                  THEN [err |-> Nil, size |-> IntValue(size),
                        buffer |-> MakeSlice(IntValue(size), IntValue(size))]
                  ELSE [err |-> Panic, buffer |-> b, size |-> 0]  \* make: out of memory
             ELSE IF IntIsNegative(size)   \* slice bounds out of range
                  THEN [err |-> Panic, buffer |-> b, size |-> 0]
                  ELSE [err |-> Nil, size |-> IntValue(size),
                        buffer |-> [b EXCEPT !.len = IntValue(size)]]

--------------------------------------------------------------------------
(* Inputs *)

\* the values MaxPacketSize is set to after construction
MaxSizes == {0, 1, 9}

\* the protocols created by PacketN with MaxPacketSize set afterward
Protocols ==
    {[PacketN(n, bo).protocol EXCEPT !.MaxPacketSize = m] :
        n \in HeadSizes, bo \in ByteOrders, m \in MaxSizes}

\* the payloads the Messages append
Payloads == {[i \in 1..k |-> 64 + k + i] : k \in 0..MaxPayload}

\* the Messages given to Packet by a protocol of head size n
Messages(n) ==
    UNION {{[hint |-> h, payload |-> pl, fails |-> FALSE] :
               h \in {0, n - 1, n + Len(pl)}} : pl \in Payloads}
    \cup {[hint |-> n, payload |-> <<>>, fails |-> TRUE]}

\* those of them that recommend the size of the packet
SizedMessages(n) == {m \in Messages(n) : m.hint = n + Len(m.payload)}

\* a Message whose payload is one byte longer than a head of one byte can
\* tell
BigMessages(n) ==
    {[hint |-> n + 256, payload |-> [i \in 1..256 |-> i % 256], fails |-> FALSE]}

--------------------------------------------------------------------------
(* State *)

Idle(t) == rd[t].pc = "idle"

NoRead == [pc |-> "idle", got |-> 0, size |-> 0]

NoReturn == [op |-> "none", err |-> Nil]

\* consumed: bytes taken from the reader by the Read; headCalls, bodyCalls:
\* its calls of reader.Read for the head and for the payload; hdr: the head
\* bytes its reader delivered; decoded: the head bytes decodeHead read;
\* size: the payload length it went on to read; before: the buffer when
\* Read was called; reads: Reads that returned nil
NoObs == [consumed |-> 0, headCalls |-> 0, bodyCalls |-> 0, hdr |-> <<>>,
          decoded |-> <<>>, size |-> 0, before |-> EmptyBuffer, reads |-> 0]

\* packets: calls of Packet; hint: what RecommendBufferSize returned to the
\* last Packet; packed: the bytes its Message appended; handed: the length
\* of the slice WriteBuffer was handed;
\* before: the buffer when the last Packet or Write was called; calls: the
\* calls of writer.Write the last Write made; out: what they put on the
\* stream
NoSnd == [packets |-> 0, hint |-> 0, packed |-> <<>>, handed |-> 0,
          before |-> EmptyBuffer,
          calls |-> 0, out |-> <<>>]

InitCommon ==
    /\ \E p \in Protocols : protocol = [i \in Insts |-> p]
    /\ buffer = [t \in Threads |-> EmptyBuffer]
    /\ rd = [t \in Threads |-> NoRead]
    /\ ret = [t \in Threads |-> NoReturn]
    /\ obs = [t \in Threads |-> NoObs]
    /\ snd = [t \in Threads |-> NoSnd]
    /\ sent = [t \in Threads |-> <<>>]

\* Faulty variant of ScratchOf: one scratch head for all the instances
ScratchOf_Global(t) == 1

\* p.head: the instance whose scratch head the Read of thread t fills and
\* decodes, the instance it is called on
ScratchOf(t) == inst[t]

\* the position a thread is left at by a call returning err
After(err) == IF err = Panic THEN [NoRead EXCEPT !.pc = "panic"] ELSE NoRead

--------------------------------------------------------------------------
(* Operations *)

\* thread t calls Packet(buffer[t], message) on its instance
CallPacket(t, message) ==
    /\ Idle(t)
    /\ snd[t].packets < MaxPackets
    /\ LET r == Packet(protocol[inst[t]], buffer[t], message)
       IN  /\ buffer' = [buffer EXCEPT ![t] = r.buffer]
           /\ ret' = [ret EXCEPT ![t] = [op |-> "Packet", err |-> r.err]]
           /\ rd' = [rd EXCEPT ![t] = After(r.err)]
           /\ snd' = [snd EXCEPT ![t] =
                        [packets |-> @.packets + 1,
                         hint    |-> message.hint,
                         packed  |-> IF r.err = Nil THEN message.payload ELSE <<>>,
                         handed  |-> r.handed,
                         before  |-> buffer[t],
                         calls   |-> 0,
                         out     |-> <<>>]]
    /\ UNCHANGED <<protocol, inst, wire, eos, serial, obs, sent>>

\* Faulty variant of CallWrite: the head is encoded in the scratch head of
\* the instance and copied to the buffer from there
CallWrite_ViaScratch(t, dst) ==
    /\ Idle(t)
    /\ Len(sent[dst]) < MaxPackets
    /\ LET r == Write(protocol[inst[t]], buffer[t], eos[dst] = "open")
       IN  /\ buffer' = [buffer EXCEPT ![t] = r.buffer]
           /\ protocol' = [protocol EXCEPT ![inst[t]].head =
                              IF r.calls > 0 THEN Take(Bytes(r.buffer), Len(@)) ELSE @]
           /\ ret' = [ret EXCEPT ![t] = [op |-> "Write", err |-> r.err]]
           /\ rd' = [rd EXCEPT ![t] = After(r.err)]
           /\ wire' = [wire EXCEPT ![dst] = @ \o r.out]
           /\ sent' = [sent EXCEPT ![dst] =
                         IF r.err = Nil THEN Append(@, snd[t].packed) ELSE @]
           /\ snd' = [snd EXCEPT ![t].before = buffer[t],
                                 ![t].calls = r.calls,
                                 ![t].out = r.out]
    /\ UNCHANGED <<inst, eos, serial, obs>>

\* thread t calls Write(writer, buffer[t]) on its instance, the writer being
\* the sending end of the stream thread dst reads from; a writer whose
\* stream is closed or broken fails
CallWrite(t, dst) ==
    /\ Idle(t)
    /\ Len(sent[dst]) < MaxPackets
    /\ LET r == Write(protocol[inst[t]], buffer[t], eos[dst] = "open")
       IN  /\ buffer' = [buffer EXCEPT ![t] = r.buffer]
           /\ ret' = [ret EXCEPT ![t] = [op |-> "Write", err |-> r.err]]
           /\ rd' = [rd EXCEPT ![t] = After(r.err)]
           /\ wire' = [wire EXCEPT ![dst] = @ \o r.out]
           /\ sent' = [sent EXCEPT ![dst] =
                         IF r.err = Nil THEN Append(@, snd[t].packed) ELSE @]
           /\ snd' = [snd EXCEPT ![t].before = buffer[t],
                                 ![t].calls = r.calls,
                                 ![t].out = r.out]
    /\ UNCHANGED <<protocol, inst, eos, serial, obs>>

\* the sending end of the stream thread dst reads from is closed (how =
\* "eof") or the stream breaks (how = "err")
Close(dst, how) ==
    /\ eos[dst] = "open"
    /\ how \in {"eof", "err"}
    /\ eos' = [eos EXCEPT ![dst] = how]
    /\ UNCHANGED <<protocol, inst, buffer, wire, rd, ret, serial, obs, snd, sent>>

\* thread t calls Read(reader, buffer[t]) on its instance: io.ReadFull for
\* the head is entered
ReadStart(t) ==
    /\ Idle(t)
    /\ rd' = [rd EXCEPT ![t] = [pc |-> "head", got |-> 0, size |-> 0]]
    /\ obs' = [obs EXCEPT ![t] = [NoObs EXCEPT !.before = buffer[t],
                                               !.reads = obs[t].reads]]
    /\ UNCHANGED <<protocol, inst, buffer, wire, eos, ret, serial, snd, sent>>

\* Read returns err to thread t
Return(t, err) ==
    /\ rd' = [rd EXCEPT ![t] = After(err)]
    /\ ret' = [ret EXCEPT ![t] = [op |-> "Read", err |-> err]]

\* one call of reader.Read by io.ReadFull(reader, p.head): the bytes it
\* delivers go to the scratch head of the instance
ReadHead(t) ==
    /\ rd[t].pc = "head"
    /\ LET p == protocol[inst[t]]
       IN  \E r \in ReaderReturns(wire[t], eos[t], p.n - rd[t].got) :
             LET bytes == Take(wire[t], r.k)
                 got   == rd[t].got + r.k
             IN  /\ protocol' = [protocol EXCEPT ![ScratchOf(t)].head =
                                    Overwrite(@, rd[t].got + 1, bytes)]
                 /\ wire' = [wire EXCEPT ![t] = Drop(@, r.k)]
                 /\ obs' = [obs EXCEPT ![t].consumed = @ + r.k,
                                       ![t].headCalls = @ + 1,
                                       ![t].hdr = @ \o bytes]
                 /\ IF ~ReadFullDone(got, p.n, r.err)
                    THEN /\ rd' = [rd EXCEPT ![t].got = got]
                         /\ ret' = ret
                    ELSE IF ReadFullErr(got, p.n, r.err) = Nil
                    THEN /\ rd' = [rd EXCEPT ![t].pc = "decode", ![t].got = got]
                         /\ ret' = ret
                    ELSE Return(t, ReadFullErr(got, p.n, r.err))
    /\ UNCHANGED <<inst, buffer, eos, serial, snd, sent>>

\* Read after the head was read: the head is decoded and checked and the
\* buffer resized; an empty packet is returned at once
ReadDecode(t) ==
    /\ rd[t].pc = "decode"
    /\ LET head == protocol[ScratchOf(t)].head
           r    == ReadSize([protocol[inst[t]] EXCEPT !.head = head], buffer[t])
       IN  /\ buffer' = [buffer EXCEPT ![t] = r.buffer]
           /\ IF r.err # Nil
              THEN /\ Return(t, r.err)
                   /\ obs' = [obs EXCEPT ![t].decoded = head]
              ELSE IF r.size = 0
              THEN /\ Return(t, Nil)
                   /\ obs' = [obs EXCEPT ![t].decoded = head,
                                         ![t].reads = @ + 1]
              ELSE /\ rd' = [rd EXCEPT ![t] = [pc |-> "body", got |-> 0, size |-> r.size]]
                   /\ ret' = ret
                   /\ obs' = [obs EXCEPT ![t].decoded = head,
                                         ![t].size = r.size]
    /\ UNCHANGED <<protocol, inst, wire, eos, serial, snd, sent>>

\* one call of reader.Read by io.ReadFull(reader, buffer.Data): the bytes it
\* delivers go to the buffer
ReadBody(t) ==
    /\ rd[t].pc = "body"
    /\ \E r \in ReaderReturns(wire[t], eos[t], rd[t].size - rd[t].got) :
         LET bytes == Take(wire[t], r.k)
             got   == rd[t].got + r.k
             err   == ReadFullErr(got, rd[t].size, r.err)
         IN  /\ buffer' = [buffer EXCEPT ![t] = CopyInto(@, rd[t].got, bytes)]
             /\ wire' = [wire EXCEPT ![t] = Drop(@, r.k)]
             /\ IF ~ReadFullDone(got, rd[t].size, r.err)
                THEN /\ rd' = [rd EXCEPT ![t].got = got]
                     /\ ret' = ret
                ELSE Return(t, err)
             /\ obs' = [obs EXCEPT ![t].consumed = @ + r.k,
                                   ![t].bodyCalls = @ + 1,
                                   ![t].reads = IF ReadFullDone(got, rd[t].size, r.err)
                                                   /\ err = Nil
                                                THEN @ + 1 ELSE @]
    /\ UNCHANGED <<protocol, inst, eos, serial, snd, sent>>

--------------------------------------------------------------------------
(* Loop-back: thread 1 sends Messages on the stream that thread 2 reads,   *)
(* each end with a protocol instance and a buffer of its own.  To send is  *)
(* to call Packet and, once it returned nil, Write.                        *)

Init ==
    /\ InitCommon
    /\ inst = [t \in Threads |-> t]
    /\ serial = FALSE
    /\ wire = [t \in Threads |-> <<>>]
    /\ eos = [t \in Threads |-> "open"]

Next ==
    \/ /\ ret[1] # [op |-> "Packet", err |-> Nil]
       /\ \E m \in SizedMessages(protocol[inst[1]].n) : CallPacket(1, m)
    \/ /\ ret[1] = [op |-> "Packet", err |-> Nil]
       /\ CallWrite(1, 2)
    \/ Close(2, "eof")
    \/ ReadStart(2)
    \/ ReadHead(2)
    \/ ReadDecode(2)
    \/ ReadBody(2)

Spec == Init /\ [][Next]_vars

--------------------------------------------------------------------------
(* Send: thread 1 calls Packet and Write in any order, with Messages that  *)
(* recommend any size, on a stream that may be closed or break.            *)

NextSend ==
    \/ \E m \in Messages(protocol[inst[1]].n) : CallPacket(1, m)
    \/ CallWrite(1, 2)
    \/ \E how \in {"eof", "err"} : Close(2, how)

SendSpec == Init /\ [][NextSend]_vars

--------------------------------------------------------------------------
(* Long payloads: thread 1 calls Packet and Write in any order, with       *)
(* Messages that recommend the size of the packet, one of them with a      *)
(* payload of 256 bytes.                                                   *)

NextBig ==
    \/ \E m \in SizedMessages(protocol[inst[1]].n) \cup BigMessages(protocol[inst[1]].n) :
          CallPacket(1, m)
    \/ CallWrite(1, 2)

BigSpec == Init /\ [][NextBig]_vars

--------------------------------------------------------------------------
(* Receive: thread 2 calls Read again and again on a stream that holds     *)
(* any bytes: a head, then the front of a payload or nothing, or the       *)
(* front of a head, and then ends or breaks.                               *)

\* the bytes the first and the last byte of a head are drawn from
HeadBytes == {0, 2, 255}

RawHeads(n) ==
    {[i \in 1..n |-> IF i = 1 THEN a ELSE IF i = n THEN b ELSE 0] :
        a \in HeadBytes, b \in HeadBytes}

RawBody(k) == [i \in 1..k |-> 64 + i]

RawWires(n) ==
    {h \o RawBody(k) : h \in RawHeads(n), k \in 0..(MaxPayload + 1)}
    \cup {Take(h, m) : h \in RawHeads(n), m \in 0..(n - 1)}

InitRecv ==
    /\ InitCommon
    /\ inst = [t \in Threads |-> t]
    /\ serial = FALSE
    /\ \E w \in RawWires(protocol[inst[2]].n) : wire = [t \in Threads |-> IF t = 2 THEN w ELSE <<>>]
    /\ \E how \in {"eof", "err"} : eos = [t \in Threads |-> IF t = 2 THEN how ELSE "open"]

NextRecv ==
    \/ ReadStart(2)
    \/ ReadHead(2)
    \/ ReadDecode(2)
    \/ ReadBody(2)

RecvSpec == InitRecv /\ [][NextRecv]_vars

--------------------------------------------------------------------------
(* Concurrent Reads: both threads call Read, each on a stream of its own   *)
(* that holds one packet and into a buffer of its own, either on one       *)
(* shared instance or each on an instance of its own; the callers of a     *)
(* shared instance may run its Reads one at a time.  The payload on the    *)
(* stream of thread 2 is one byte longer than that of thread 1.            *)

\* the packet of a payload of k bytes as it is on the wire
Packed(p, k) == PutUint(p.bo, p.n, k) \o RawBody(k)

InitConc ==
    /\ InitCommon
    /\ protocol[1].MaxPacketSize = 0
    /\ inst \in {[t \in Threads |-> 1], [t \in Threads |-> t]}
    /\ serial \in BOOLEAN
    /\ \E k \in 1..MaxPayload :
          wire = [t \in Threads |-> Packed(protocol[1], IF t = 1 THEN k - 1 ELSE k)]
    /\ eos = [t \in Threads |-> "eof"]

\* no other thread is in a Read on the instance of thread t
Alone(t) == \A u \in Threads \ {t} : inst[u] = inst[t] => Idle(u)

NextConc ==
    \E t \in Threads :
        \/ (serial => Alone(t)) /\ ReadStart(t)
        \/ ReadHead(t)
        \/ ReadDecode(t)
        \/ ReadBody(t)

ConcSpec == InitConc /\ [][NextConc]_vars

--------------------------------------------------------------------------
(* Life of an instance: thread 2 creates its protocol with PacketN, may    *)
(* set MaxPacketSize, is given a reader of any bytes and calls Read on it  *)
(* again and again.                                                        *)

\* no protocol value: PacketN has not returned one
NoProtocol == [n |-> 0, bo |-> "none", head |-> <<>>, MaxPacketSize |-> 0]

Exists(i) == protocol[i] # NoProtocol

\* the head sizes PacketN is called with
Widths == {-1, 0, 1, 2, 3, 4, 5, 8, 9}

\* thread t calls PacketN(n, byteOrder) for its instance; a panic returns
\* nothing
CallPacketN(t, n, byteOrder) ==
    /\ Idle(t)
    /\ ret[t].op = "none"
    /\ ~Exists(inst[t])
    /\ LET r == PacketN(n, byteOrder)
       IN  /\ protocol' = IF r.err = Nil
                           THEN [protocol EXCEPT ![inst[t]] = r.protocol]
                           ELSE protocol
           /\ ret' = [ret EXCEPT ![t] = [op |-> "PacketN", err |-> r.err, n |-> n]]
           /\ rd' = [rd EXCEPT ![t] = After(r.err)]
    /\ UNCHANGED <<inst, buffer, wire, eos, serial, obs, snd, sent>>

\* thread t sets MaxPacketSize of the instance it has created
SetMaxPacketSize(t, m) ==
    /\ Idle(t)
    /\ ret[t].op = "PacketN"
    /\ Exists(inst[t])
    /\ protocol' = [protocol EXCEPT ![inst[t]].MaxPacketSize = m]
    /\ ret' = [ret EXCEPT ![t] = [op |-> "MaxPacketSize", err |-> Nil]]
    /\ UNCHANGED <<inst, buffer, wire, eos, rd, serial, obs, snd, sent>>

\* thread t is given another reader for its next Reads: one that holds the
\* bytes w and then ends (how = "eof") or fails (how = "err")
Feed(t, w, how) ==
    /\ Idle(t)
    /\ obs[t].reads < MaxPackets
    /\ how \in {"eof", "err"}
    /\ wire' = [wire EXCEPT ![t] = w]
    /\ eos' = [eos EXCEPT ![t] = how]
    /\ UNCHANGED <<protocol, inst, buffer, rd, ret, serial, obs, snd, sent>>

InitLife ==
    /\ protocol = [i \in Insts |-> NoProtocol]
    /\ inst = [t \in Threads |-> t]
    /\ buffer = [t \in Threads |-> EmptyBuffer]
    /\ wire = [t \in Threads |-> <<>>]
    /\ eos = [t \in Threads |-> "eof"]
    /\ rd = [t \in Threads |-> NoRead]
    /\ ret = [t \in Threads |-> NoReturn]
    /\ serial = FALSE
    /\ obs = [t \in Threads |-> NoObs]
    /\ snd = [t \in Threads |-> NoSnd]
    /\ sent = [t \in Threads |-> <<>>]

NextLife ==
    \/ \E n \in Widths, bo \in ByteOrders : CallPacketN(2, n, bo)
    \/ \E m \in MaxSizes : SetMaxPacketSize(2, m)
    \/ /\ Exists(inst[2])
       /\ \/ /\ ret[2].op \in {"PacketN", "MaxPacketSize"}
             /\ wire[2] = <<>>
             /\ \E w \in RawWires(protocol[inst[2]].n), how \in {"eof", "err"} :
                   Feed(2, w, how)
          \/ ReadStart(2)
          \/ ReadHead(2)
          \/ ReadDecode(2)
          \/ ReadBody(2)

LifeSpec == InitLife /\ [][NextLife]_vars

--------------------------------------------------------------------------
(* Reuse of a buffer: thread 2, with a protocol of head size 1 or 2, calls *)
(* Packet and Read in any order on its one buffer, the Reads on a stream   *)
(* of two packets, the second of them possibly cut short.                  *)

\* the payload lengths of the packets on the stream
ReuseLengths == {0, MaxPayload + 1}

ReuseWires(p) ==
    {Packed(p, a) \o Packed(p, b) : a \in ReuseLengths, b \in ReuseLengths}
    \cup {Packed(p, a) \o Take(Packed(p, MaxPayload + 1), p.n + 1) : a \in ReuseLengths}

InitReuse ==
    /\ InitCommon
    /\ protocol[2].n <= 2
    /\ inst = [t \in Threads |-> t]
    /\ serial = FALSE
    /\ \E w \in ReuseWires(protocol[inst[2]]) :
          wire = [t \in Threads |-> IF t = 2 THEN w ELSE <<>>]
    /\ eos = [t \in Threads |-> IF t = 2 THEN "eof" ELSE "open"]

\* the Messages packed: those with no payload or the longest one
ReuseMessages(n) == {m \in Messages(n) : Len(m.payload) \in {0, MaxPayload}}

NextReuse ==
    \/ \E m \in ReuseMessages(protocol[inst[2]].n) : CallPacket(2, m)
    \/ ReadStart(2)
    \/ ReadHead(2)
    \/ ReadDecode(2)
    \/ ReadBody(2)

ReuseSpec == InitReuse /\ [][NextReuse]_vars

--------------------------------------------------------------------------
(* Two histories: both threads have a protocol of the same head size (1 or *)
(* 2), byte order and MaxPacketSize.  Thread 1 calls Read on a reader of   *)
(* any bytes, any number of times; then both threads are given readers of  *)
(* the same bytes and the same end, and each calls Read once, thread 2     *)
(* with a protocol and a buffer that were never used.                      *)

\* the payload lengths the heads on the streams tell
IndepLengths == {0, 1, 2, 256}

\* the streams read: nothing, the front of a head, or a head and the
\* payload it tells or the front of it
IndepWires(p) ==
    {Take(PutUint(p.bo, p.n, v), m) : v \in IndepLengths, m \in 0..(p.n - 1)}
    \cup {PutUint(p.bo, p.n, v) \o RawBody(k) : v \in IndepLengths, k \in 0..2}

\* both threads are given a reader that holds w and then ends or fails
FeedBoth(w, how) ==
    /\ ret[2].op = "none"
    /\ \A t \in Threads : Idle(t)
    /\ how \in {"eof", "err"}
    /\ wire' = [t \in Threads |-> w]
    /\ eos' = [t \in Threads |-> how]
    /\ ret' = [t \in Threads |-> [op |-> "Reader", err |-> Nil]]
    /\ UNCHANGED <<protocol, inst, buffer, rd, serial, obs, snd, sent>>

InitIndep ==
    /\ InitCommon
    /\ protocol[1].n <= 2
    /\ inst = [t \in Threads |-> t]
    /\ serial = FALSE
    /\ \E w \in IndepWires(protocol[inst[1]]) :
          wire = [t \in Threads |-> IF t = 1 THEN w ELSE <<>>]
    /\ eos = [t \in Threads |-> "eof"]

NextIndep ==
    \/ /\ ret[2].op = "none"
       /\ ReadStart(1)
    \/ \E w \in IndepWires(protocol[inst[1]]), how \in {"eof", "err"} : FeedBoth(w, how)
    \/ /\ ret[1].op = "Reader"
       /\ ReadStart(1)
    \/ /\ ret[2].op = "Reader"
       /\ ret[1].op = "Read"
       /\ rd[1].pc \in {"idle", "panic"}
       /\ ReadStart(2)
    \/ \E t \in Threads :
          \/ ReadHead(t)
          \/ ReadDecode(t)
          \/ ReadBody(t)

IndepSpec == InitIndep /\ [][NextIndep]_vars

--------------------------------------------------------------------------
(* One instance for sending and receiving: thread 1 calls Packet and Write *)
(* and thread 2 calls Read, on the same protocol instance, each with a     *)
(* buffer and a stream of its own, the calls of thread 1 at any point      *)
(* between the steps of a Read of thread 2 and at no other.  Thread 1      *)
(* sends Messages as in the loop-back; the stream of thread 2 holds one    *)
(* packet.                                                                 *)

InitFrame ==
    /\ InitCommon
    /\ inst = [t \in Threads |-> 1]
    /\ serial = FALSE
    /\ \E v \in {0, 2} :
          wire = [t \in Threads |-> IF t = 2 THEN Packed(protocol[1], v) ELSE <<>>]
    /\ eos = [t \in Threads |-> IF t = 2 THEN "eof" ELSE "open"]

NextFrame ==
    \/ /\ rd[2].pc \in {"head", "decode", "body"}
       /\ ret[1] # [op |-> "Packet", err |-> Nil]
       /\ \E m \in SizedMessages(protocol[inst[1]].n) : CallPacket(1, m)
    \/ /\ rd[2].pc \in {"head", "decode", "body"}
       /\ ret[1] = [op |-> "Packet", err |-> Nil]
       /\ CallWrite(1, 1)
    \/ ReadStart(2)
    \/ ReadHead(2)
    \/ ReadDecode(2)
    \/ ReadBody(2)

FrameSpec == InitFrame /\ [][NextFrame]_vars

--------------------------------------------------------------------------
(* Two byte orders: thread 1 sends one Message with a protocol of one byte *)
(* order and thread 2 calls Read once with a protocol of the same head     *)
(* size and of the same or the other byte order, and with a size limit.    *)

\* the payload lengths sent: 257 is the least positive length whose two
\* bytes read the same in both orders
CrossLengths == {0, 1, 2, 257}

CrossMessages(n) ==
    {[hint |-> n + k, payload |-> [i \in 1..k |-> i % 256], fails |-> FALSE] :
        k \in CrossLengths}

InitCross ==
    /\ \E n \in HeadSizes, bo1 \in ByteOrders, bo2 \in ByteOrders :
          protocol = [i \in Insts |->
                        IF i = 1
                        THEN PacketN(n, bo1).protocol
                        ELSE [PacketN(n, bo2).protocol EXCEPT !.MaxPacketSize = 9]]
    /\ inst = [t \in Threads |-> t]
    /\ buffer = [t \in Threads |-> EmptyBuffer]
    /\ wire = [t \in Threads |-> <<>>]
    /\ eos = [t \in Threads |-> "open"]
    /\ rd = [t \in Threads |-> NoRead]
    /\ ret = [t \in Threads |-> NoReturn]
    /\ serial = FALSE
    /\ obs = [t \in Threads |-> NoObs]
    /\ snd = [t \in Threads |-> NoSnd]
    /\ sent = [t \in Threads |-> <<>>]

NextCross ==
    \/ /\ snd[1].packets = 0
       /\ \E m \in CrossMessages(protocol[inst[1]].n) : CallPacket(1, m)
    \/ /\ ret[1] = [op |-> "Packet", err |-> Nil]
       /\ CallWrite(1, 2)
    \/ /\ ret[2].op = "none"
       /\ obs[2] = NoObs
       /\ ReadStart(2)
    \/ ReadHead(2)
    \/ ReadDecode(2)
    \/ ReadBody(2)

CrossSpec == InitCross /\ [][NextCross]_vars

--------------------------------------------------------------------------
(* Properties of the loop-back *)

\* the protocol instance of thread t
Of(t) == protocol[inst[t]]

\* Read has returned err to thread t, which has called nothing since
ReadReturned(t, err) == Idle(t) /\ ret[t] = [op |-> "Read", err |-> err]

\* a payload of this length has a length that n head bytes can hold
FitsHead(n, len) ==
    CASE n = 1 -> len <= 255
      [] n = 2 -> len <= 65535
      [] OTHER -> TRUE

\* the payloads sent to thread t all have a representable length
AllFit(t) == \A j \in 1..Len(sent[t]) : FitsHead(Of(t).n, Len(sent[t][j]))

\* the payload the last successful Read of thread t should have returned
Expected(t) == sent[t][obs[t].reads]

\* the bytes on the wire of the payloads from the i-th on
RECURSIVE WireLen(_, _, _)
WireLen(n, payloads, i) ==
    IF i > Len(payloads) THEN 0 ELSE n + Len(payloads[i]) + WireLen(n, payloads, i + 1)

\* C1: with no size limit, a payload of representable length that was
\* packed by Packet and written by Write is what Read leaves in the buffer
\* of the reading end: a Read that took bytes from the stream returns nil,
\* and the buffer has the length of the payload and holds its bytes, and
\* none of the head.
RoundTrip ==
    (Of(2).MaxPacketSize = 0 /\ AllFit(2)
       /\ Idle(2) /\ ret[2].op = "Read" /\ obs[2].consumed > 0)
        => /\ ret[2].err = Nil
           /\ obs[2].reads \in 1..Len(sent[2])
           /\ buffer[2].len = Len(Expected(2))
           /\ Bytes(buffer[2]) = Expected(2)

\* a payload of the largest length went round, through a head of 8 bytes
RoundTripWitness ==
    /\ Of(2).MaxPacketSize = 0 /\ Of(2).n = 8
    /\ ReadReturned(2, Nil)
    /\ Len(Expected(2)) = MaxPayload
    /\ Bytes(buffer[2]) = Expected(2)

\* C2: with no size limit and payloads of representable length, the Reads
\* return the payloads in the order they were written, each Read consumes
\* the head and the payload of its packet and no more, a Read fails only
\* at the end of the stream with every packet read, and after the last
\* packet was read no byte remains on the stream.
Adjacency ==
    (Of(2).MaxPacketSize = 0 /\ AllFit(2) /\ Idle(2))
        => /\ obs[2].reads <= Len(sent[2])
           /\ Len(wire[2]) = WireLen(Of(2).n, sent[2], obs[2].reads + 1)
           /\ obs[2].reads = Len(sent[2]) => wire[2] = <<>>
           /\ ReadReturned(2, Nil)
                 => /\ Bytes(buffer[2]) = Expected(2)
                    /\ obs[2].consumed = Of(2).n + Len(Expected(2))
           /\ (ret[2].op = "Read" /\ ret[2].err # Nil)
                 => /\ ret[2].err = EOF
                    /\ obs[2].consumed = 0
                    /\ obs[2].reads = Len(sent[2])

\* two different payloads were written and read, and the stream is drained
AdjacencyWitness ==
    /\ Of(2).MaxPacketSize = 0
    /\ ReadReturned(2, Nil)
    /\ Len(sent[2]) = 2 /\ obs[2].reads = 2
    /\ sent[2][1] # sent[2][2]
    /\ wire[2] = <<>>

\* Write has returned to thread t, which has called nothing since
WriteReturned(t) == Idle(t) /\ ret[t].op = "Write"

\* C3: with a size limit M > 0, Write refuses a buffer exactly when its
\* payload, the head not counted, is longer than M.
SendLimitIsOnPayload ==
    \A t \in Threads :
        (WriteReturned(t) /\ Of(t).MaxPacketSize > 0)
            => ((ret[t].err = PacketTooLargeError)
                    <=> (snd[t].before.len - Of(t).n > Of(t).MaxPacketSize))

\* C4: with a size limit M > 0, Write refuses every buffer whose payload is
\* longer than M, calls the writer not once, puts nothing on the stream and
\* leaves the buffer as it was, head placeholder included.
SendGuard ==
    \A t \in Threads :
        (WriteReturned(t) /\ Of(t).MaxPacketSize > 0
           /\ snd[t].before.len - Of(t).n > Of(t).MaxPacketSize)
            => /\ ret[t].err = PacketTooLargeError
               /\ snd[t].calls = 0
               /\ snd[t].out = <<>>
               /\ buffer[t] = snd[t].before

\* Write has refused a payload longer than the limit
SendGuardWitness ==
    /\ WriteReturned(1)
    /\ Of(1).MaxPacketSize > 0
    /\ Len(snd[1].packed) > Of(1).MaxPacketSize
    /\ snd[1].before.len = Of(1).n + Len(snd[1].packed)
    /\ ret[1].err = PacketTooLargeError

\* C8: however the reader cuts a packet into deliveries of at least one
\* byte, Read comes to an end, after at most one call per byte, with the
\* result of a delivery in one piece: nil, the payload in the buffer, and
\* the head and the payload consumed.  A Read that has begun a packet
\* finds the rest of it on the stream.
ShortReadResilience ==
    /\ (rd[2].pc = "head" /\ obs[2].consumed > 0)
          => /\ wire[2] # <<>>
             /\ obs[2].headCalls <= rd[2].got
             /\ rd[2].got < Of(2).n
    /\ rd[2].pc = "body"
          => /\ wire[2] # <<>>
             /\ obs[2].bodyCalls <= rd[2].got
             /\ rd[2].got < rd[2].size
    /\ (Idle(2) /\ ret[2].op = "Read" /\ obs[2].consumed > 0 /\ AllFit(2))
          => /\ ret[2].err = Nil
             /\ Bytes(buffer[2]) = Expected(2)
             /\ obs[2].consumed = Of(2).n + Len(Expected(2))
             /\ obs[2].headCalls <= Of(2).n
             /\ obs[2].bodyCalls <= Len(Expected(2))

\* a packet was read one byte per call
ShortReadWitness ==
    /\ ReadReturned(2, Nil)
    /\ Of(2).n = 8
    /\ obs[2].headCalls = 8
    /\ obs[2].bodyCalls = MaxPayload
    /\ Bytes(buffer[2]) = Expected(2)

\* C9: for a Message that appends nothing Write puts the n bytes of the
\* head on the stream, all zero, and no more; Read of a head of zeroes
\* returns nil with a buffer of length 0, having consumed the head alone
\* and called the reader no more once it had the head.
EmptyPacket ==
    /\ \A t \in Threads :
          (WriteReturned(t) /\ ret[t].err = Nil /\ snd[t].packed = <<>>)
              => /\ snd[t].out = Zeros(Of(t).n)
                 /\ snd[t].calls = 1
    /\ \A t \in Threads :
          (Idle(t) /\ ret[t].op = "Read" /\ obs[t].hdr = Zeros(Of(t).n))
              => /\ ret[t].err = Nil
                 /\ buffer[t].len = 0
                 /\ obs[t].consumed = Of(t).n
                 /\ obs[t].bodyCalls = 0

\* an empty packet was written and read back, after a packet with a payload
EmptyPacketWitness ==
    /\ ReadReturned(2, Nil)
    /\ obs[2].reads = 2
    /\ sent[2][1] # <<>> /\ sent[2][2] = <<>>
    /\ snd[1].packed = <<>> /\ snd[1].out = Zeros(Of(1).n)
    /\ obs[2].hdr = Zeros(Of(2).n)
    /\ buffer[2].len = 0

--------------------------------------------------------------------------
(* Properties of Packet *)

\* C6: for a Message that recommends a size smaller than n, whatever the
\* buffer held before, Packet does not panic and hands WriteBuffer a buffer
\* of length n, so that a Packet that returns nil leaves a buffer of length
\* n plus the length of the payload.
PacketReservesHead ==
    \A t \in Threads :
        (ret[t].op = "Packet" /\ snd[t].hint < Of(t).n)
            => /\ ret[t].err # Panic
               /\ snd[t].handed = Of(t).n
               /\ ret[t].err = Nil => buffer[t].len = Of(t).n + Len(snd[t].packed)

\* the n bytes hdr, read as an unsigned integer in the byte order of p,
\* are the number len
HeadValueIs(p, hdr, len) ==
    LET x == IntOfUnsigned(Uint(p.bo, hdr))
    IN  IntIsSmall(x) /\ IntValue(x) = len

\* C12: whenever Write has written a buffer of at least n bytes, the first
\* n bytes it put on the stream, read as an unsigned integer in the byte
\* order of the protocol, are the number of payload bytes it put on the
\* stream after them, which is len(buffer) - n; also for a payload longer
\* than n bytes can tell.
HeadIsPayloadLength ==
    \A t \in Threads :
        (WriteReturned(t) /\ ret[t].err = Nil /\ snd[t].before.len >= Of(t).n)
            => /\ Len(snd[t].out) = snd[t].before.len
               /\ HeadValueIs(Of(t), Take(snd[t].out, Of(t).n),
                              Len(snd[t].out) - Of(t).n)

\* C17: a Write that does not refuse a buffer of at least n bytes leaves
\* the length of the buffer and its bytes from n on as they were, and calls
\* the writer exactly once, with the whole buffer; when the writer fails
\* Write returns its error and does not call it again; and a Write that
\* follows a Write of the same buffer puts the same bytes on the stream.
WriteStampsAndWritesOnce ==
    [][\A t \in Threads :
          (ret'[t].op = "Write" /\ eos' = eos
             /\ buffer[t].len >= Of(t).n /\ ~WriteTooLarge(Of(t), buffer[t]))
              => /\ buffer'[t].len = buffer[t].len
                 /\ buffer'[t].cap = buffer[t].cap
                 /\ Drop(Bytes(buffer'[t]), Of(t).n) = Drop(Bytes(buffer[t]), Of(t).n)
                 /\ snd'[t].calls = 1
                 /\ eos[2] = "open"
                      => /\ ret'[t].err = Nil
                         /\ snd'[t].out = Bytes(buffer'[t])
                         /\ wire'[2] = wire[2] \o Bytes(buffer'[t])
                 /\ eos[2] # "open"
                      => /\ ret'[t].err = TransportError
                         /\ wire' = wire
                 /\ (ret[t] = [op |-> "Write", err |-> Nil] /\ ret'[t].err = Nil)
                      => snd'[t].out = snd[t].out]_vars

\* a packet with a payload was written twice, the same bytes both times
WriteTwiceWitness ==
    /\ Idle(1)
    /\ ret[1] = [op |-> "Write", err |-> Nil]
    /\ snd[1].packets = 1
    /\ snd[1].packed # <<>>
    /\ snd[1].calls = 1
    /\ Len(sent[2]) = 2
    /\ wire[2] = Bytes(buffer[1]) \o Bytes(buffer[1])

--------------------------------------------------------------------------
(* Properties of Read on any stream *)

\* the int decodeHead returns for the head bytes hdr
Decoded(p, hdr) == decodeHead([p EXCEPT !.head = hdr])

\* C5: with a size limit M > 0, a Read whose head bytes decode to a length
\* greater than M returns PacketTooLargeError, having consumed the n bytes
\* of the head and no more and called the reader for no payload, and
\* leaves the buffer as it was; and Read returns that error in no other
\* case.
RecvGuard ==
    \A t \in Threads :
        /\ (Idle(t) /\ ret[t].op = "Read" /\ Of(t).MaxPacketSize > 0
              /\ Len(obs[t].hdr) = Of(t).n
              /\ IntGreater(Decoded(Of(t), obs[t].hdr), Of(t).MaxPacketSize))
               => /\ ret[t].err = PacketTooLargeError
                  /\ obs[t].consumed = Of(t).n
                  /\ obs[t].bodyCalls = 0
                  /\ buffer[t] = obs[t].before
        /\ ReadReturned(t, PacketTooLargeError)
               => /\ Of(t).MaxPacketSize > 0
                  /\ Len(obs[t].hdr) = Of(t).n
                  /\ IntGreater(Decoded(Of(t), obs[t].hdr), Of(t).MaxPacketSize)

\* a Read has refused a packet whose payload is still on the stream
RecvGuardWitness ==
    /\ ReadReturned(2, PacketTooLargeError)
    /\ obs[2].consumed = Of(2).n
    /\ Len(wire[2]) > MaxPayload
    /\ buffer[2] = obs[2].before

\* the stream of thread t ended while its last Read was inside a packet:
\* after some but not all bytes of the head, or after the head and before
\* all of a payload of positive length
EndedInsidePacket(t) ==
    /\ Idle(t) /\ ret[t].op = "Read"
    /\ eos[t] = "eof" /\ wire[t] = <<>>
    /\ \/ obs[t].consumed > 0 /\ obs[t].consumed < Of(t).n
       \/ /\ obs[t].size > 0
          /\ obs[t].consumed >= Of(t).n
          /\ obs[t].consumed - Of(t).n < obs[t].size

\* C7: a Read that meets the end of the stream inside a packet fails with
\* the unexpected-end-of-input error.
EndInsidePacketIsUnexpected ==
    \A t \in Threads : EndedInsidePacket(t) => ret[t].err = ErrUnexpectedEOF

\* the n bytes hdr, read as an unsigned integer in the byte order of p,
\* are a number greater than m
HeadValueGreater(p, hdr, m) ==
    LET x == IntOfUnsigned(Uint(p.bo, hdr))
    IN  ~IntIsSmall(x) \/ IntValue(x) > m

\* C13: the length Read decodes from a head, checks against the limit and
\* resizes the buffer to is the unsigned value of the head and never
\* negative; a head whose unsigned value is greater than a limit M > 0,
\* such as a head of 8 bytes with its most significant bit set, makes Read
\* return PacketTooLargeError.
DecodedIsUnsigned ==
    \A t \in Threads :
        (ret[t].op = "Read" /\ rd[t].pc \in {"idle", "panic"}
           /\ Len(obs[t].decoded) = Of(t).n)
            => /\ ~IntIsNegative(Decoded(Of(t), obs[t].decoded))
               /\ (Of(t).MaxPacketSize > 0
                     /\ HeadValueGreater(Of(t), obs[t].decoded, Of(t).MaxPacketSize))
                    => ret[t].err = PacketTooLargeError

--------------------------------------------------------------------------
(* Properties of concurrent Reads *)

\* C10: when each Read runs on an instance of its own, or the Reads on a
\* shared instance run one at a time, every Read decodes the head bytes it
\* took from its own reader; when two Reads run on one shared instance at
\* the same time, a Read may decode the head bytes the other Read took
\* from its stream (ScratchRace).
OwnHeadDecoded ==
    (inst[1] # inst[2] \/ serial)
        => \A t \in Threads : obs[t].decoded # <<>> => obs[t].decoded = obs[t].hdr

\* on a shared instance, a Read has decoded the head of the other stream
ScratchRace ==
    /\ inst[1] = inst[2] /\ ~serial
    /\ \E t, u \in Threads :
          /\ t # u
          /\ Len(obs[t].hdr) = Of(t).n
          /\ Len(obs[t].decoded) = Of(t).n
          /\ obs[t].decoded = obs[u].hdr
          /\ obs[t].decoded # obs[t].hdr

--------------------------------------------------------------------------
(* Properties of the life of an instance *)

\* C11: PacketN called with a head size outside {1, 2, 4, 8} panics and
\* returns no protocol; called with one of them it returns a protocol of
\* that head size with a scratch head of n zero bytes and MaxPacketSize 0;
\* and every protocol there is has a head size in {1, 2, 4, 8} and a
\* scratch head of exactly that many bytes, whatever was called on it.
UnsupportedWidth ==
    /\ \A t \in Threads :
          (ret[t].op = "PacketN" /\ rd[t].pc \in {"idle", "panic"})
              => /\ ret[t].n \notin HeadSizes
                      => /\ ret[t].err = Panic
                         /\ rd[t].pc = "panic"
                         /\ ~Exists(inst[t])
                 /\ ret[t].n \in HeadSizes
                      => /\ ret[t].err = Nil
                         /\ Exists(inst[t])
                         /\ protocol[inst[t]].n = ret[t].n
                         /\ protocol[inst[t]].head = Zeros(ret[t].n)
                         /\ protocol[inst[t]].MaxPacketSize = 0
    /\ \A i \in Insts :
          Exists(i) => /\ protocol[i].n \in HeadSizes
                       /\ Len(protocol[i].head) = protocol[i].n

\* a protocol made by PacketN, its limit set later, has read a packet into
\* its scratch head
UnsupportedWidthWitness ==
    /\ Exists(inst[2])
    /\ protocol[inst[2]].MaxPacketSize > 0
    /\ ReadReturned(2, Nil)
    /\ protocol[inst[2]].head # Zeros(protocol[inst[2]].n)
    /\ Len(protocol[inst[2]].head) = protocol[inst[2]].n

--------------------------------------------------------------------------
(* Properties of a reused buffer *)

\* the buffer b has the backing array of the buffer a, with the bytes a had
\* in it outside the positions lo + 1 .. hi
RegionKept(a, b, lo, hi) ==
    /\ b.cap = a.cap
    /\ \A i \in 1..(IF Len(a.data) > Len(b.data) THEN Len(a.data) ELSE Len(b.data)) :
          (i <= lo \/ i > hi) => ByteAt(b, i) = ByteAt(a, i)

\* C14: for a Message that recommends at least n bytes, whatever the
\* buffer held before, Packet does not panic and hands WriteBuffer a buffer
\* of length n: the region it had when its capacity is at least the size
\* recommended, a new region of the capacity recommended otherwise; so a
\* Packet that returns nil leaves a buffer of length n plus the length of
\* the payload, whose bytes from n on are those of the Message.
PacketDiscardsPrevious ==
    \A t \in Threads :
        (ret[t].op = "Packet" /\ rd[t].pc \in {"idle", "panic"}
           /\ snd[t].hint >= Of(t).n)
            => LET n      == Of(t).n
                   before == snd[t].before
                   reused == before.cap >= snd[t].hint
                   room   == IF reused THEN before.cap ELSE snd[t].hint
                   fits   == n + Len(snd[t].packed) <= room
               IN  /\ ret[t].err \in {Nil, MessageError}
                   /\ snd[t].handed = n
                   /\ ret[t].err = Nil
                        => /\ buffer[t].len = n + Len(snd[t].packed)
                           /\ Drop(Bytes(buffer[t]), n) = snd[t].packed
                   /\ ret[t].err = MessageError => buffer[t].len = n
                   /\ (reused /\ fits) => RegionKept(before, buffer[t], n, buffer[t].len)
                   /\ (~reused /\ fits)
                        => /\ buffer[t].cap = snd[t].hint
                           /\ Take(Bytes(buffer[t]), n) = Zeros(n)
                           /\ Len(buffer[t].data) <= buffer[t].len

\* a buffer that held the payload a Read had left was packed again, in the
\* region it had
PacketDiscardsWitness ==
    /\ ret[2] = [op |-> "Packet", err |-> Nil]
    /\ Idle(2)
    /\ obs[2].reads > 0
    /\ snd[2].hint >= Of(2).n
    /\ snd[2].before.cap >= snd[2].hint
    /\ snd[2].before.len = MaxPayload + 1
    /\ Bytes(snd[2].before) = RawBody(MaxPayload + 1)
    /\ snd[2].packed # <<>>
    /\ buffer[2].len = Of(2).n + Len(snd[2].packed)

\* C19: over the calls of Packet and Read on a buffer, the capacity of the
\* buffer never gets smaller and its length is never more than its
\* capacity; Packet keeps the region when its capacity is at least the size
\* recommended (and the payload fits in), and Read keeps it when its
\* capacity is at least the length decoded.
CapacityNeverShrinks ==
    [][\A t \in Threads :
          /\ buffer'[t].cap >= buffer[t].cap
          /\ buffer'[t].len <= buffer'[t].cap
          /\ (snd'[t].packets # snd[t].packets
                /\ buffer[t].cap >= snd'[t].hint
                /\ Of(t).n + Len(snd'[t].packed) <= buffer[t].cap)
               => RegionKept(buffer[t], buffer'[t], Of(t).n, buffer'[t].len)
          /\ (rd[t].pc = "decode" /\ ~IntGreater(decodeHead(Of(t)), buffer[t].cap))
               => /\ buffer'[t].cap = buffer[t].cap
                  /\ buffer'[t].data = buffer[t].data]_vars

\* after Packets and Reads the buffer is shorter than its capacity, in a
\* region that a Read has reused
CapacityKeptWitness ==
    /\ ReadReturned(2, Nil)
    /\ snd[2].packets > 0
    /\ obs[2].reads = 2
    /\ obs[2].before.cap >= obs[2].size
    /\ obs[2].size > 0
    /\ buffer[2].len < buffer[2].cap
    /\ buffer[2].cap = obs[2].before.cap

--------------------------------------------------------------------------
(* Properties of Reads with different histories *)

\* both threads have returned from their Read of the same stream
BothRead ==
    \A t \in Threads : ret[t].op = "Read" /\ rd[t].pc \in {"idle", "panic"}

\* C15 as stated: a Read of a protocol that has read before, into a buffer
\* that was used before, and a Read of a fresh protocol into a fresh
\* buffer, of streams of the same bytes and the same end, have the same
\* outcome: the same error or none, the same number of bytes consumed, and
\* the same length and bytes of the buffer.
ReadOutcomeIndependent ==
    BothRead
        => /\ ret[1].err = ret[2].err
           /\ obs[1].consumed = obs[2].consumed
           /\ buffer[1].len = buffer[2].len
           /\ Bytes(buffer[1]) = Bytes(buffer[2])

\* C15 as amended: the two Reads return the same error or none and consume
\* the same number of bytes, leaving the same bytes on the stream; and when
\* they return nil they leave buffers of the same length and bytes.
ReadIndependent ==
    BothRead
        => /\ ret[1].err = ret[2].err
           /\ obs[1].consumed = obs[2].consumed
           /\ wire[1] = wire[2]
           /\ ret[1].err = Nil
                => /\ buffer[1].len = buffer[2].len
                   /\ Bytes(buffer[1]) = Bytes(buffer[2])

\* after a Read that failed inside a head and left a byte of it in the
\* scratch head, and Reads that left a longer payload in the buffer, a
\* packet was read as by a protocol never used
ReadIndependentWitness ==
    /\ BothRead
    /\ ret[1].err = Nil
    /\ protocol[1].head = protocol[2].head
    /\ obs[1].before.len > buffer[1].len
    /\ buffer[1].len > 0
    /\ buffer[1].cap # buffer[2].cap
    /\ Bytes(buffer[1]) = Bytes(buffer[2])

--------------------------------------------------------------------------
(* Properties of one instance for sending and receiving *)

\* C16: a call of Packet or Write changes nothing of the protocol: not n,
\* the byte order, MaxPacketSize or the scratch head; so a Read on the same
\* instance, with another buffer, decodes the head bytes its own reader
\* delivered, and returns nil with the payload that head tells, whatever
\* Packet and Write calls came between its steps.
PacketAndWriteFrame ==
    [][/\ (snd'[1] # snd[1] \/ ret'[1] # ret[1])
            => /\ protocol' = protocol
               /\ rd'[2] = rd[2]
               /\ buffer'[2] = buffer[2]
       /\ obs'[2].decoded # <<>> => obs'[2].decoded = obs'[2].hdr
       /\ (Idle(2)' /\ ret'[2] = [op |-> "Read", err |-> Nil])
            => /\ HeadValueIs(Of(2)', obs'[2].hdr, buffer'[2].len)
               /\ obs'[2].consumed = Of(2).n + buffer'[2].len]_vars

\* the first Read has returned a payload, with a Packet and a Write of
\* another head on its instance between its steps
PacketAndWriteFrameWitness ==
    /\ ReadReturned(2, Nil)
    /\ buffer[2].len > 0
    /\ obs[2].decoded = obs[2].hdr
    /\ ret[1] = [op |-> "Write", err |-> Nil]
    /\ snd[1].packed # <<>>
    /\ Take(snd[1].out, Of(1).n) # obs[2].hdr
    /\ obs[2].reads = 1

--------------------------------------------------------------------------
(* Properties of two byte orders *)

\* the n bytes of the number len, most significant first
Representation(n, len) == Reverse(LowBytes(len, n))

\* C18: a payload length L that n bytes can hold, stamped into a head by a
\* protocol of one byte order and decoded by a protocol of the same head
\* size, decodes to L when the byte orders are the same; when they differ
\* it decodes to the value whose n bytes are those of L in reverse, which
\* is L only when the n bytes of L read the same in both directions; and a
\* head of one byte is the same in both orders.
EndiannessSymmetry ==
    (Len(obs[2].decoded) = Of(2).n /\ Len(sent[2]) = 1
       /\ FitsHead(Of(2).n, Len(sent[2][1])))
        => LET n   == Of(2).n
               L   == Len(sent[2][1])
               rep == Representation(n, L)
               dec == Decoded(Of(2), obs[2].decoded)
               isL == IntIsSmall(dec) /\ IntValue(dec) = L
           IN  /\ Of(1).bo = Of(2).bo => isL
               /\ Of(1).bo # Of(2).bo
                    => /\ dec = IntOfUnsigned(Reverse(rep))
                       /\ isL <=> (rep = Reverse(rep))
               /\ n = 1 => /\ obs[2].decoded = <<L>>
                            /\ isL

\* a head of two bytes stamped in one byte order was decoded in the other
\* to another length than the one stamped
EndiannessWitness ==
    /\ Of(1).bo # Of(2).bo
    /\ Of(2).n = 2
    /\ Len(sent[2]) = 1
    /\ Len(sent[2][1]) = 2
    /\ Len(obs[2].decoded) = 2
    /\ Decoded(Of(2), obs[2].decoded) = IntOfUnsigned(<<2, 0>>)

==========================================================================
